---- MODULE Spec2Model ----
(***************************************************************************)
(* Model of lambda/alarm_formatter.py: the SNS-triggered Lambda handler    *)
(* that normalises CloudWatch alarm notifications, renders a subject and   *)
(* a body, and publishes them to the formatted-alerts topic.               *)
(*                                                                         *)
(* Text is modelled character by character on TLA+ strings (Len, \o and    *)
(* SubSeq act on them as on sequences of one-character strings).           *)
(* Python values are tagged records [t |-> tag, v |-> content]; a dict is  *)
(* the sequence of its <<key, value>> pairs in insertion order.            *)
(* The non-ASCII glyphs of the body's section headers and the arrow of     *)
(* the state-change line are written in ASCII.                             *)
(***************************************************************************)
EXTENDS Integers, Sequences, FiniteSets, TLC

(***************************************************************************)
(* Python values                                                           *)
(***************************************************************************)
None == [t |-> "null", v |-> "None"]
Str(s) == [t |-> "str", v |-> s]
Num(n) == [t |-> "int", v |-> n]
Bool(b) == [t |-> "bool", v |-> b]
List(items) == [t |-> "list", v |-> items]
Dict(pairs) == [t |-> "dict", v |-> pairs]

EmptyDict == Dict(<<>>)

IsNone(x) == x.t = "null"
IsStr(x) == x.t = "str"
IsDict(x) == x.t = "dict"
IsList(x) == x.t = "list"

\* bool(x): None, "", 0, False, [] and {} are falsy.
Truthy(x) ==
  CASE x.t = "null" -> FALSE
    [] x.t = "str" -> x.v # ""
    [] x.t = "int" -> x.v # 0
    [] x.t = "bool" -> x.v
    [] x.t = "list" -> Len(x.v) > 0
    [] x.t = "dict" -> Len(x.v) > 0

\* a or b
Or(a, b) == IF Truthy(a) THEN a ELSE b

Keys(d) == {d.v[i][1] : i \in 1..Len(d.v)}

HasKey(d, k) == k \in Keys(d)

Lookup(d, k) == d.v[CHOOSE i \in 1..Len(d.v) : d.v[i][1] = k][2]

\* d.get(k, default)
GetOr(d, k, default) == IF HasKey(d, k) THEN Lookup(d, k) ELSE default

\* d.get(k)
Get(d, k) == GetOr(d, k, None)

\* d[k] = val : a new key goes last, an old key keeps its place.
DictPut(pairs, k, val) ==
  IF \E i \in 1..Len(pairs) : pairs[i][1] = k
    THEN [i \in 1..Len(pairs) |-> IF pairs[i][1] = k THEN <<k, val>> ELSE pairs[i]]
    ELSE Append(pairs, <<k, val>>)

(***************************************************************************)
(* Characters and strings                                                  *)
(***************************************************************************)
\* s[i-1] in Python terms; "" past the end.
Ch(s, i) == IF i >= 1 /\ i <= Len(s) THEN SubSeq(s, i, i) ELSE ""

Lowers == <<"a", "b", "c", "d", "e", "f", "g", "h", "i", "j", "k", "l", "m",
            "n", "o", "p", "q", "r", "s", "t", "u", "v", "w", "x", "y", "z">>
Uppers == <<"A", "B", "C", "D", "E", "F", "G", "H", "I", "J", "K", "L", "M",
            "N", "O", "P", "Q", "R", "S", "T", "U", "V", "W", "X", "Y", "Z">>

UpperChar(c) ==
  IF \E k \in 1..26 : Lowers[k] = c
    THEN Uppers[CHOOSE k \in 1..26 : Lowers[k] = c]
    ELSE c

\* The loops over the characters of a string split their range in halves.
RECURSIVE UpperRange(_, _, _)
UpperRange(s, lo, hi) ==
  IF lo > hi THEN ""
  ELSE IF lo = hi THEN UpperChar(Ch(s, lo))
  ELSE UpperRange(s, lo, (lo + hi) \div 2) \o UpperRange(s, (lo + hi) \div 2 + 1, hi)

\* str.upper() on ASCII text
Upper(s) == UpperRange(s, 1, Len(s))

Digits == {"0", "1", "2", "3", "4", "5", "6", "7", "8", "9"}

DigitVal(c) ==
  CASE c = "0" -> 0 [] c = "1" -> 1 [] c = "2" -> 2 [] c = "3" -> 3
    [] c = "4" -> 4 [] c = "5" -> 5 [] c = "6" -> 6 [] c = "7" -> 7
    [] c = "8" -> 8 [] c = "9" -> 9

\* c * n
RECURSIVE Repeat(_, _)
Repeat(c, n) ==
  IF n <= 0 THEN ""
  ELSE IF n = 1 THEN c
  ELSE Repeat(c, n \div 2) \o Repeat(c, n - n \div 2)

\* s[:n]
Take(s, n) == SubSeq(s, 1, IF Len(s) < n THEN Len(s) ELSE n)

RECURSIVE ReplaceRange(_, _, _, _, _)
ReplaceRange(s, lo, hi, c, by) ==
  IF lo > hi THEN ""
  ELSE IF lo = hi THEN (IF Ch(s, lo) = c THEN by ELSE Ch(s, lo))
  ELSE ReplaceRange(s, lo, (lo + hi) \div 2, c, by)
       \o ReplaceRange(s, (lo + hi) \div 2 + 1, hi, c, by)

\* s.replace(c, by) for a one-character c
Replace(s, c, by) == ReplaceRange(s, 1, Len(s), c, by)

RECURSIVE JoinRange(_, _, _, _)
JoinRange(parts, lo, hi, sep) ==
  IF lo > hi THEN ""
  ELSE IF lo = hi THEN parts[lo]
  ELSE JoinRange(parts, lo, (lo + hi) \div 2, sep) \o sep
       \o JoinRange(parts, (lo + hi) \div 2 + 1, hi, sep)

\* sep.join(parts)
Join(parts, sep) == JoinRange(parts, 1, Len(parts), sep)

(***************************************************************************)
(* json.loads, on the JSON subset without floats, string escapes and the   *)
(* NaN/Infinity literals.  A parse step yields [ok, val, pos]: pos is the  *)
(* index of the first character after the value; ok = FALSE stands for     *)
(* json.JSONDecodeError.                                                   *)
(***************************************************************************)
Whitespace == {" ", "\t", "\n", "\r"}

ParseFail == [ok |-> FALSE, val |-> None, pos |-> 0]
Parsed(val, pos) == [ok |-> TRUE, val |-> val, pos |-> pos]

\* The first index at or after i that holds no whitespace
RECURSIVE SkipWs(_, _)
SkipWs(s, i) == IF Ch(s, i) \in Whitespace THEN SkipWs(s, i + 1) ELSE i

Min(S) == CHOOSE m \in S : \A n \in S : m <= n

\* The first index in lo..hi that holds one of chars, 0 if none does; the
\* range is scanned sixteen characters at a time.
RECURSIVE FirstOf(_, _, _, _)
FirstOf(s, lo, hi, chars) ==
  IF lo > hi THEN 0
  ELSE LET found == {j \in lo..(IF lo + 15 < hi THEN lo + 15 ELSE hi) : Ch(s, j) \in chars}
       IN IF found # {} THEN Min(found) ELSE FirstOf(s, lo + 16, hi, chars)

QuoteIfAt(s, j) == IF Ch(s, j) = "\"" THEN j ELSE 0

\* Index of the closing quote of a string whose text starts at i; 0 if there
\* is none or a backslash or a control character comes first.
ClosingQuote(s, i) ==
  QuoteIfAt(s, FirstOf(s, i, Len(s), {"\"", "\\", "\n", "\r", "\t"}))

\* s[i] is the opening quote.
ParseString(s, i) ==
  LET j == ClosingQuote(s, i + 1)
  IN IF j = 0 THEN ParseFail ELSE Parsed(Str(SubSeq(s, i + 1, j - 1)), j + 1)

\* The first index at or after i that holds no digit
RECURSIVE DigitsEnd(_, _)
DigitsEnd(s, i) == IF Ch(s, i) \in Digits THEN DigitsEnd(s, i + 1) ELSE i

RECURSIVE DigitsValue(_, _, _, _)
DigitsValue(s, i, j, acc) ==
  IF i >= j THEN acc ELSE DigitsValue(s, i + 1, j, 10 * acc + DigitVal(Ch(s, i)))

\* -?(0|[1-9][0-9]*)
ParseNumber(s, i) ==
  LET neg == Ch(s, i) = "-"
      d == IF neg THEN i + 1 ELSE i
      e == IF Ch(s, d) = "0" THEN d + 1 ELSE DigitsEnd(s, d)
      n == DigitsValue(s, d, e, 0)
  IN IF e = d THEN ParseFail ELSE Parsed(Num(IF neg THEN 0 - n ELSE n), e)

ParseLiteral(s, i, word, val) ==
  IF i + Len(word) - 1 <= Len(s) /\ SubSeq(s, i, i + Len(word) - 1) = word
    THEN Parsed(val, i + Len(word))
    ELSE ParseFail

RECURSIVE ParseValue(_, _)
RECURSIVE ParseMembers(_, _, _)
RECURSIVE ParseElements(_, _, _)

\* After "{" or ",": s[i] must open a key.
ParseMembers(s, i, acc) ==
  IF Ch(s, i) # "\"" THEN ParseFail
  ELSE LET k == ParseString(s, i)
       IN IF ~k.ok THEN ParseFail
          ELSE LET c == SkipWs(s, k.pos)
               IN IF Ch(s, c) # ":" THEN ParseFail
                  ELSE LET val == ParseValue(s, SkipWs(s, c + 1))
                       IN IF ~val.ok THEN ParseFail
                          ELSE LET e == SkipWs(s, val.pos)
                                   more == DictPut(acc, k.val.v, val.val)
                               IN IF Ch(s, e) = "}" THEN Parsed(Dict(more), e + 1)
                                  ELSE IF Ch(s, e) = ","
                                    THEN ParseMembers(s, SkipWs(s, e + 1), more)
                                  ELSE ParseFail

\* After "[" or ",": s[i] must start an element.
ParseElements(s, i, acc) ==
  LET val == ParseValue(s, i)
  IN IF ~val.ok THEN ParseFail
     ELSE LET e == SkipWs(s, val.pos)
              more == Append(acc, val.val)
          IN IF Ch(s, e) = "]" THEN Parsed(List(more), e + 1)
             ELSE IF Ch(s, e) = "," THEN ParseElements(s, SkipWs(s, e + 1), more)
             ELSE ParseFail

ParseValue(s, i) ==
  LET c == Ch(s, i)
  IN CASE c = "\"" -> ParseString(s, i)
       [] c = "{" ->
            LET j == SkipWs(s, i + 1)
            IN IF Ch(s, j) = "}" THEN Parsed(EmptyDict, j + 1)
               ELSE ParseMembers(s, j, <<>>)
       [] c = "[" ->
            LET j == SkipWs(s, i + 1)
            IN IF Ch(s, j) = "]" THEN Parsed(List(<<>>), j + 1)
               ELSE ParseElements(s, j, <<>>)
       [] c = "n" -> ParseLiteral(s, i, "null", None)
       [] c = "t" -> ParseLiteral(s, i, "true", Bool(TRUE))
       [] c = "f" -> ParseLiteral(s, i, "false", Bool(FALSE))
       [] c = "-" \/ c \in Digits -> ParseNumber(s, i)
       [] OTHER -> ParseFail

\* json.loads(s) for a str s: a value, then nothing but whitespace.
json_loads(s) ==
  LET r == ParseValue(s, SkipWs(s, 1))
  IN IF r.ok /\ SkipWs(s, r.pos) = Len(s) + 1 THEN r ELSE ParseFail

(***************************************************************************)
(* Outcome of a call: a returned value or a raised exception.              *)
(***************************************************************************)
Ret(val) == [raised |-> FALSE, val |-> val, exc |-> ""]
Raise(exc) == [raised |-> TRUE, val |-> None, exc |-> exc]

\* normalize_message without the isinstance check: any decoded JSON is returned.
normalize_message_AnyJson(message) ==
  IF ~IsStr(message) THEN Raise("TypeError")
  ELSE IF json_loads(message.v).ok THEN Ret(json_loads(message.v).val)
  ELSE Ret(Dict(<< <<"raw_message", message>> >>))

\* normalize_message(message): the decoded dict, or the text wrapped.
\* json.loads raises TypeError, which is not caught, unless message is a
\* str (bytes and bytearray do not come out of a JSON event).
normalize_message(message) ==
  IF ~IsStr(message) THEN Raise("TypeError")
  ELSE LET r == json_loads(message.v)
       IN IF r.ok /\ IsDict(r.val) THEN Ret(r.val)
          ELSE Ret(Dict(<< <<"raw_message", message>> >>))

(***************************************************************************)
(* str() and repr() as the f-strings and str(dimensions) apply them; text  *)
(* is assumed free of quotes and backslashes where repr would escape.      *)
(***************************************************************************)
RECURSIVE PyRepr(_)
RECURSIVE ReprItems(_, _)
RECURSIVE ReprPairs(_, _)

ReprItems(items, i) ==
  IF i > Len(items) THEN ""
  ELSE PyRepr(items[i]) \o (IF i < Len(items) THEN ", " ELSE "")
       \o ReprItems(items, i + 1)

ReprPairs(pairs, i) ==
  IF i > Len(pairs) THEN ""
  ELSE "'" \o pairs[i][1] \o "': " \o PyRepr(pairs[i][2])
       \o (IF i < Len(pairs) THEN ", " ELSE "") \o ReprPairs(pairs, i + 1)

PyRepr(x) ==
  CASE x.t = "null" -> "None"
    [] x.t = "str" -> "'" \o x.v \o "'"
    [] x.t = "int" -> ToString(x.v)
    [] x.t = "bool" -> IF x.v THEN "True" ELSE "False"
    [] x.t = "list" -> "[" \o ReprItems(x.v, 1) \o "]"
    [] x.t = "dict" -> "{" \o ReprPairs(x.v, 1) \o "}"

\* str(x), also what "{x}" in an f-string renders
PyStr(x) == IF IsStr(x) THEN x.v ELSE PyRepr(x)

(***************************************************************************)
(* json.dumps(payload, indent=2, default=str)                              *)
(***************************************************************************)
EscapeChar(c) ==
  CASE c = "\"" -> "\\\""
    [] c = "\\" -> "\\\\"
    [] c = "\n" -> "\\n"
    [] c = "\r" -> "\\r"
    [] c = "\t" -> "\\t"
    [] OTHER -> c

RECURSIVE EscapeRange(_, _, _)
EscapeRange(s, lo, hi) ==
  IF lo > hi THEN ""
  ELSE IF lo = hi THEN EscapeChar(Ch(s, lo))
  ELSE EscapeRange(s, lo, (lo + hi) \div 2) \o EscapeRange(s, (lo + hi) \div 2 + 1, hi)

JsonQuote(s) == "\"" \o EscapeRange(s, 1, Len(s)) \o "\""

RECURSIVE DumpValue(_, _)
RECURSIVE DumpItems(_, _, _)
RECURSIVE DumpPairs(_, _, _)

DumpItems(items, i, level) ==
  IF i > Len(items) THEN ""
  ELSE "\n" \o Repeat(" ", 2 * level) \o DumpValue(items[i], level)
       \o (IF i < Len(items) THEN "," ELSE "") \o DumpItems(items, i + 1, level)

DumpPairs(pairs, i, level) ==
  IF i > Len(pairs) THEN ""
  ELSE "\n" \o Repeat(" ", 2 * level) \o JsonQuote(pairs[i][1]) \o ": "
       \o DumpValue(pairs[i][2], level)
       \o (IF i < Len(pairs) THEN "," ELSE "") \o DumpPairs(pairs, i + 1, level)

DumpValue(x, level) ==
  CASE x.t = "null" -> "null"
    [] x.t = "str" -> JsonQuote(x.v)
    [] x.t = "int" -> ToString(x.v)
    [] x.t = "bool" -> IF x.v THEN "true" ELSE "false"
    [] x.t = "list" ->
         IF Len(x.v) = 0 THEN "[]"
         ELSE "[" \o DumpItems(x.v, 1, level + 1) \o "\n"
              \o Repeat(" ", 2 * level) \o "]"
    [] x.t = "dict" ->
         IF Len(x.v) = 0 THEN "{}"
         ELSE "{" \o DumpPairs(x.v, 1, level + 1) \o "\n"
              \o Repeat(" ", 2 * level) \o "}"

json_dumps(x) == DumpValue(x, 0)

(***************************************************************************)
(* The formatter                                                           *)
(***************************************************************************)
\* severity_text(state): state.upper() exists on str only.
severity_text(state) ==
  IF ~IsStr(state) THEN Raise("AttributeError")
  ELSE LET up == Upper(state.v)
       IN CASE up = "ALARM" -> Ret(Str("CRITICAL"))
            [] up = "INSUFFICIENT_DATA" -> Ret(Str("WARNING"))
            [] up = "OK" -> Ret(Str("RESOLVED"))
            [] OTHER -> Ret(Str("INFO"))

\* payload.get("NewStateValue") or payload.get("StateValue") or "UNKNOWN"
ResolveState(payload) ==
  Or(Or(Get(payload, "NewStateValue"), Get(payload, "StateValue")), Str("UNKNOWN"))

\* payload.get("AlarmName") or payload.get("Alarm") or "CloudWatch Alarm"
ResolveAlarmName(payload) ==
  Or(Or(Get(payload, "AlarmName"), Get(payload, "Alarm")), Str("CloudWatch Alarm"))

format_subject(payload) ==
  LET severity_label == severity_text(ResolveState(payload))
  IN IF severity_label.raised THEN severity_label
     ELSE Ret(Str(severity_label.val.v \o " - " \o PyStr(ResolveAlarmName(payload))))

(***************************************************************************)
(* datetime.fromisoformat / strftime, on the extended ISO-8601 forms       *)
(*   YYYY-MM-DD [sep HH[:MM[:SS]] [(+|-)HH[:MM]]]                          *)
(* (no fractions, no basic or week-date forms).                            *)
(***************************************************************************)
AllDigits(s, i, j) == \A k \in i..j : Ch(s, k) \in Digits

\* int(s[i-1:j]) for a run of digits
NumAt(s, i, j) == DigitsValue(s, i, j + 1, 0)

IsLeap(y) == (y % 4 = 0 /\ y % 100 # 0) \/ y % 400 = 0

DaysInMonth(y, m) ==
  IF m = 2 THEN (IF IsLeap(y) THEN 29 ELSE 28)
  ELSE IF m \in {4, 6, 9, 11} THEN 30 ELSE 31

\* Two digits at i, at most max.
TwoDigits(s, i, max) == AllDigits(s, i, i + 1) /\ i + 1 <= Len(s) /\ NumAt(s, i, i + 1) <= max

ValidDate(s) ==
  /\ Len(s) >= 10
  /\ AllDigits(s, 1, 4) /\ Ch(s, 5) = "-"
  /\ AllDigits(s, 6, 7) /\ Ch(s, 8) = "-"
  /\ AllDigits(s, 9, 10)
  /\ NumAt(s, 1, 4) >= 1
  /\ NumAt(s, 6, 7) \in 1..12
  /\ NumAt(s, 9, 10) \in 1..DaysInMonth(NumAt(s, 1, 4), NumAt(s, 6, 7))

\* HH, HH:MM or HH:MM:SS
ValidClock(c) ==
  \/ Len(c) = 2 /\ TwoDigits(c, 1, 23)
  \/ Len(c) = 5 /\ TwoDigits(c, 1, 23) /\ Ch(c, 3) = ":" /\ TwoDigits(c, 4, 59)
  \/ /\ Len(c) = 8 /\ TwoDigits(c, 1, 23) /\ Ch(c, 3) = ":" /\ TwoDigits(c, 4, 59)
     /\ Ch(c, 6) = ":" /\ TwoDigits(c, 7, 59)

\* HH or HH:MM, less than a day in all (the minutes are not range-checked)
ValidOffset(z) ==
  \/ Len(z) = 2 /\ TwoDigits(z, 1, 23)
  \/ /\ Len(z) = 5 /\ TwoDigits(z, 1, 99) /\ Ch(z, 3) = ":" /\ TwoDigits(z, 4, 99)
     /\ 60 * NumAt(z, 1, 2) + NumAt(z, 4, 5) < 1440

\* Index of the first "+" or "-" of s at or after i; 0 if none.
SignAt(s, i) == FirstOf(s, i, Len(s), {"+", "-"})

\* The wall-clock text of s, without its offset
ClockOf(s) ==
  LET z == SignAt(s, 12)
  IN IF z = 0 THEN SubSeq(s, 12, Len(s)) ELSE SubSeq(s, 12, z - 1)

OffsetOf(s) == SubSeq(s, SignAt(s, 12) + 1, Len(s))

\* Whether datetime.fromisoformat(s) returns rather than raising ValueError
IsIsoFormat(s) ==
  /\ ValidDate(s)
  /\ \/ Len(s) = 10
     \/ /\ Len(s) > 11
        /\ ValidClock(ClockOf(s))
        /\ SignAt(s, 12) # 0 => ValidOffset(OffsetOf(s))

PadClock(c) ==
  IF Len(c) = 2 THEN c \o ":00:00" ELSE IF Len(c) = 5 THEN c \o ":00" ELSE c

\* dt.strftime('%Y-%m-%d %H:%M:%S'): %Y is not zero-padded, the offset is dropped.
StrfTime(s) ==
  ToString(NumAt(s, 1, 4)) \o SubSeq(s, 5, 10) \o " "
    \o (IF Len(s) = 10 THEN "00:00:00" ELSE PadClock(ClockOf(s)))

\* format_timestamp(value): value.replace exists on str only.
format_timestamp(value) ==
  IF ~Truthy(value) THEN Ret(Str("Unknown"))
  ELSE IF ~IsStr(value) THEN Raise("AttributeError")
  ELSE LET iso == Replace(value.v, "Z", "+00:00")
       IN IF IsIsoFormat(iso) THEN Ret(Str(StrfTime(iso) \o " UTC")) ELSE Ret(value)

(***************************************************************************)
(* extract_trigger_info                                                    *)
(***************************************************************************)
TriggerDefaults ==
  [metric_name |-> Str("Unknown"), namespace |-> Str("Unknown"),
   statistic |-> Str("Unknown"), period |-> Str("Unknown"),
   evaluation_periods |-> Str("Unknown"), threshold |-> Str("Unknown"),
   dimensions |-> Str("None")]

\* f"{d.get('name')}={d.get('value')}" for each dict d of dimensions
RECURSIVE DimensionEntries(_, _)
DimensionEntries(items, i) ==
  IF i > Len(items) THEN <<>>
  ELSE (IF IsDict(items[i])
          THEN << PyStr(Get(items[i], "name")) \o "=" \o PyStr(Get(items[i], "value")) >>
          ELSE <<>>)
       \o DimensionEntries(items, i + 1)

RenderDimensions(dimensions) ==
  IF IsList(dimensions)
    THEN Or(Str(Join(DimensionEntries(dimensions.v, 1), ", ")), Str("None"))
    ELSE Str(PyStr(dimensions))

\* trigger.get exists on dict only.
extract_trigger_info(trigger) ==
  IF ~Truthy(trigger) THEN Ret(TriggerDefaults)
  ELSE IF ~IsDict(trigger) THEN Raise("AttributeError")
  ELSE Ret(
    [metric_name |->
       Or(Or(Get(trigger, "MetricName"), Get(trigger, "Metric")), Str("Unknown")),
     namespace |-> GetOr(trigger, "Namespace", Str("Unknown")),
     statistic |->
       Or(Get(trigger, "Statistic"), GetOr(trigger, "Stat", Str("Unknown"))),
     period |->
       Or(Or(Get(trigger, "Period"), Get(trigger, "PeriodInSeconds")), Str("Unknown")),
     evaluation_periods |-> GetOr(trigger, "EvaluationPeriods", Str("Unknown")),
     threshold |-> GetOr(trigger, "Threshold", Str("Unknown")),
     dimensions |->
       RenderDimensions(
         Or(Or(Get(trigger, "Dimensions"), Get(trigger, "dimension")), List(<<>>)))])

(***************************************************************************)
(* format_body                                                             *)
(***************************************************************************)
Rule == "======================================================================"
Dashes == "----------------------------------------------------------------------"

\* The list `lines`: f-strings are str; reason and the alarm ARN are
\* whatever the payload holds.
BodyLines(payload, severity, timestamp_text, trigger_info, include_raw) ==
  << Str(severity \o " - " \o PyStr(GetOr(payload, "AlarmName", Str("Unknown")))),
     Str(Rule),
     Str(""),
     Str("STATE CHANGE"),
     Str("From: " \o PyStr(GetOr(payload, "OldStateValue", Str("UNKNOWN")))
         \o " -> To: " \o PyStr(ResolveState(payload))),
     Str(""),
     Str("REASON"),
     Or(Get(payload, "NewStateReason"),
        GetOr(payload, "StateReason", Str("No reason provided"))),
     Str(""),
     Str("METRIC DETAILS"),
     Str("* Metric: " \o PyStr(trigger_info.metric_name)),
     Str("* Namespace: " \o PyStr(trigger_info.namespace)),
     Str("* Statistic: " \o PyStr(trigger_info.statistic)),
     Str("* Period: " \o PyStr(trigger_info.period) \o " minute"),
     Str("* Evaluation Periods: " \o PyStr(trigger_info.evaluation_periods)),
     Str("* Threshold: " \o PyStr(trigger_info.threshold)),
     Str("* Dimensions: " \o PyStr(trigger_info.dimensions)),
     Str(""),
     Str("SOURCE RESOURCE"),
     GetOr(payload, "AlarmArn", Str("Unknown")),
     Str(""),
     Str("LOG ENTRY"),
     Str(Dashes),
     Str("not available"),
     Str(Dashes),
     Str(""),
     Str("ADDITIONAL INFO"),
     Str("* Time: " \o timestamp_text),
     Str("* Region: " \o PyStr(GetOr(payload, "Region", Str("Unknown")))),
     Str("* Account: " \o PyStr(GetOr(payload, "AWSAccountId", Str("Unknown")))) >>
  \o (IF include_raw
        THEN << Str(""), Str("Raw Payload:"), Str(json_dumps(payload)) >>
        ELSE <<>>)

\* "\n".join(lines) raises TypeError on an item that is not a str.
JoinLines(lines) ==
  IF \E i \in 1..Len(lines) : ~IsStr(lines[i]) THEN Raise("TypeError")
  ELSE Ret(Str(Join([i \in 1..Len(lines) |-> lines[i].v], "\n")))

format_body(payload, include_raw) ==
  LET severity == severity_text(ResolveState(payload))
      timestamp_text ==
        format_timestamp(
          Or(Get(payload, "StateChangeTime"), Get(payload, "StateTransitionTime")))
      trigger_info == extract_trigger_info(Or(Get(payload, "Trigger"), EmptyDict))
  IN IF severity.raised THEN severity
     ELSE IF timestamp_text.raised THEN timestamp_text
     ELSE IF trigger_info.raised THEN trigger_info
     ELSE JoinLines(BodyLines(payload, severity.val.v, timestamp_text.val.v,
                              trigger_info.val, include_raw))

(***************************************************************************)
(* lambda_handler                                                          *)
(***************************************************************************)
\* Subject=subject[:100]
SubjectLimit == 100

\* event.get("Records", [])
RecordsOf(ev) == GetOr(ev, "Records", List(<<>>))

\* `if records is None`: an empty list is let into the loop.
NoRecordsFound_NoneOnly(records) == IsNone(records)

\* `if not records`
NoRecordsFound(records) == ~Truthy(records)

\* Whether enumerate(records) can iterate over records
Iterable(records) == records.t \in {"list", "str", "dict"}

\* The items enumerate(records) yields
Items(records) ==
  CASE records.t = "list" -> records.v
    [] records.t = "str" -> [i \in 1..Len(records.v) |-> Str(Ch(records.v, i))]
    [] records.t = "dict" -> [i \in 1..Len(records.v) |-> Str(records.v[i][1])]
    [] OTHER -> <<>>

\* `if raw_message is None`: an empty message is formatted and published.
MissingMessage_NoneOnly(raw_message) == IsNone(raw_message)

\* `if not raw_message`
MissingMessage(raw_message) == ~Truthy(raw_message)

\* `if not FORMATTED_TOPIC_ARN`
TopicUnset(topic) == topic = ""

\* Subject=subject, not cut
SubjectArg_Whole(subject) == subject

\* The Subject argument of sns_client.publish
SubjectArg(subject) == Take(subject, SubjectLimit)

Skip == [kind |-> "skip", exc |-> "", subject |-> "", body |-> ""]
Fault(exc) == [kind |-> "raise", exc |-> exc, subject |-> "", body |-> ""]
Ready(subject, body) == [kind |-> "ready", exc |-> "", subject |-> subject, body |-> body]

\* Lines 38-39: the subject and the body, or the exception that ends them.
Formatted(subject, body) ==
  IF subject.raised THEN Fault(subject.exc)
  ELSE IF body.raised THEN Fault(body.exc)
  ELSE Ready(subject.val.v, body.val.v)

\* Lines 37-39, given what normalize_message came to
PreparePayload(payload, include_raw) ==
  IF payload.raised THEN Fault(payload.exc)
  ELSE Formatted(format_subject(payload.val), format_body(payload.val, include_raw))

\* Lines 33-39, given raw_message
PrepareMessage(raw_message, include_raw) ==
  IF MissingMessage(raw_message) THEN Skip
  ELSE PreparePayload(normalize_message(raw_message), include_raw)

\* Lines 32-39, given sns: sns.get exists on dict only.
PrepareSns(sns, include_raw) ==
  IF ~IsDict(sns) THEN Fault("AttributeError")
  ELSE PrepareMessage(Get(sns, "Message"), include_raw)

\* Lines 31-39 of the loop body for one record: skip it, raise, or have a
\* subject and a body ready.  record.get exists on dict only.
Prepare(record, include_raw) ==
  IF ~IsDict(record) THEN Fault("AttributeError")
  ELSE PrepareSns(GetOr(record, "Sns", EmptyDict), include_raw)

\* message_ids.append(message_id) without the `if message_id` test
Collect_Unchecked(ids, response) == Append(ids, Get(response, "MessageId"))

\* message_ids after a publish call returned response
Collect(ids, response) ==
  IF Truthy(Get(response, "MessageId"))
    THEN Append(ids, Get(response, "MessageId"))
    ELSE ids

BadRequest ==
  Dict(<< <<"statusCode", Num(400)>>, <<"body", Str("No SNS records provided")>> >>)

Success(ids) == Dict(<< <<"statusCode", Num(200)>>, <<"messageIds", List(ids)>> >>)

(***************************************************************************)
(* Inputs: the events an invocation may be handed                          *)
(***************************************************************************)
MaxRecords == 2
MaxNameLen == 100

\* JSON text of an object with the given members
Q(s) == "\"" \o s \o "\""
Member(k, text) == Q(k) \o ":" \o text
Obj(members) == "{" \o Join(members, ",") \o "}"

TriggerText ==
  Obj(<< Member("MetricName", Q("CPUUtilization")),
         Member("Namespace", Q("AWS/EC2")),
         Member("Statistic", Q("AVERAGE")),
         Member("Period", "60"),
         Member("EvaluationPeriods", "1"),
         Member("Threshold", "80"),
         Member("Dimensions",
                "[" \o Obj(<< Member("value", Q("i-1")), Member("name", Q("InstanceId")) >>)
                \o "]") >>)

\* A CloudWatch alarm notification as the alarm service sends it
AlarmText ==
  Obj(<< Member("AlarmName", Q("cpu-high")),
         Member("AWSAccountId", Q("123456789012")),
         Member("NewStateValue", Q("ALARM")),
         Member("NewStateReason", Q("Threshold Crossed")),
         Member("StateChangeTime", Q("2024-01-15T10:30:00Z")),
         Member("Region", Q("US East")),
         Member("AlarmArn", Q("arn:aws:cloudwatch:alarm:cpu-high")),
         Member("OldStateValue", Q("OK")),
         Member("Trigger", TriggerText) >>)

\* The generic shape: StateValue, Alarm, StateReason, StateTransitionTime
GenericText ==
  Obj(<< Member("Alarm", Q("disk-low")),
         Member("StateValue", Q("ok")),
         Member("StateReason", Q("recovered")),
         Member("StateTransitionTime", Q("not-a-date")),
         Member("Trigger",
                Obj(<< Member("Metric", Q("Disk")), Member("Stat", Q("Sum")),
                       Member("PeriodInSeconds", "300"),
                       Member("dimension", Obj(<< Member("Vol", Q("v1")) >>)) >>)) >>)

NumericStateText == Obj(<< Member("AlarmName", Q("a")), Member("NewStateValue", "1") >>)

NumericTimeText ==
  Obj(<< Member("NewStateValue", Q("ALARM")), Member("StateChangeTime", "1705314600") >>)

NullArnText == Obj(<< Member("NewStateValue", Q("OK")), Member("AlarmArn", "null") >>)

TextTriggerText ==
  Obj(<< Member("NewStateValue", Q("INSUFFICIENT_DATA")), Member("Trigger", Q("cpu")) >>)

NamedText(n) ==
  Obj(<< Member("AlarmName", Q(Repeat("n", n))), Member("NewStateValue", Q("ALARM")) >>)

SnsRecord(message) == Dict(<< <<"Sns", Dict(<< <<"Message", message>> >>)>> >>)

\* Records a batch is drawn from
RecordPool ==
  << SnsRecord(Str(AlarmText)),
     SnsRecord(Str(GenericText)),
     SnsRecord(Str("disk is full")),
     EmptyDict,
     Dict(<< <<"Sns", EmptyDict>> >>),
     SnsRecord(Str("")),
     Dict(<< <<"Sns", None>> >>),
     SnsRecord(Num(5)),
     SnsRecord(Str(NumericStateText)) >>

EventOf(records) == Dict(<< <<"Records", records>> >>)

Batches ==
  UNION {{List([i \in 1..n |-> RecordPool[f[i]]]) : f \in [1..n -> 1..Len(RecordPool)]}
           : n \in 1..MaxRecords}

\* Single deliveries whose JSON members have other types than a CloudWatch alarm's
OddEvents ==
  {EventOf(List(<< SnsRecord(Str(text)) >>)) : text \in {NumericTimeText, NullArnText, TextTriggerText}}

NamedEvents == {EventOf(List(<< SnsRecord(Str(NamedText(n))) >>)) : n \in 0..MaxNameLen}

Events ==
  {EmptyDict, EventOf(None), EventOf(List(<<>>)), EventOf(Num(7)), EventOf(Str("r"))}
    \cup {EventOf(b) : b \in Batches}
    \cup OddEvents
    \cup NamedEvents

TopicArns == {"", "arn:aws:sns:formatted"}

MessageIds == {"id-a", "id-b"}

\* What sns_client.publish may return
PublishResponses ==
  {Dict(<< <<"MessageId", Str(m)>> >>) : m \in MessageIds} \cup {EmptyDict}

(***************************************************************************)
(* State                                                                   *)
(***************************************************************************)
VARIABLES
  FORMATTED_TOPIC_ARN,  \* module constant read from the environment
  INCLUDE_RAW_PAYLOAD,  \* module constant read from the environment
  event,                \* the argument of lambda_handler
  arg,                  \* the argument of a function applied on its own
  pc,                   \* "start", "loop", "record", "done" (returned), "raised"
  index,                \* enumerate's counter, from 1
  current,              \* lines 31-39 for the record at index
  message_ids,          \* the list message_ids
  calls,                \* the sns_client.publish calls made so far
  result                \* what the invocation returned or raised

vars ==
  << FORMATTED_TOPIC_ARN, INCLUDE_RAW_PAYLOAD, event, arg, pc, index, current,
     message_ids, calls, result >>

config == << FORMATTED_TOPIC_ARN, INCLUDE_RAW_PAYLOAD, event, arg >>

records == RecordsOf(event)

Call(i, subject, body, failed, response) ==
  [index |-> i, TopicArn |-> FORMATTED_TOPIC_ARN, Subject |-> subject,
   Message |-> body, failed |-> failed, response |-> response]

Init ==
  /\ FORMATTED_TOPIC_ARN \in TopicArns
  /\ INCLUDE_RAW_PAYLOAD \in BOOLEAN
  /\ event \in Events
  /\ arg = None
  /\ pc = "start"
  /\ index = 0
  /\ current = Skip
  /\ message_ids = <<>>
  /\ calls = <<>>
  /\ result = Ret(None)

\* Lines 24-27: no records, the 400 response.
NoRecords ==
  /\ pc = "start"
  /\ NoRecordsFound(records)
  /\ pc' = "done"
  /\ result' = Ret(BadRequest)
  /\ UNCHANGED << config, index, current, message_ids, calls >>

\* Line 30: enumerate(records) raises TypeError.
RecordsNotIterable ==
  /\ pc = "start"
  /\ ~NoRecordsFound(records)
  /\ ~Iterable(records)
  /\ pc' = "raised"
  /\ result' = Raise("TypeError")
  /\ UNCHANGED << config, index, current, message_ids, calls >>

\* Lines 29-30: the loop starts.
BeginLoop ==
  /\ pc = "start"
  /\ ~NoRecordsFound(records)
  /\ Iterable(records)
  /\ pc' = "loop"
  /\ index' = 1
  /\ message_ids' = <<>>
  /\ UNCHANGED << config, current, calls, result >>

\* Lines 30-39: the next record is taken, normalised and formatted.
TakeRecord ==
  /\ pc = "loop"
  /\ index <= Len(Items(records))
  /\ current' = Prepare(Items(records)[index], INCLUDE_RAW_PAYLOAD)
  /\ pc' = "record"
  /\ UNCHANGED << config, index, message_ids, calls, result >>

\* Lines 33-35: a record without a message body is skipped.
SkipRecord ==
  /\ pc = "record"
  /\ current.kind = "skip"
  /\ index' = index + 1
  /\ pc' = "loop"
  /\ UNCHANGED << config, current, message_ids, calls, result >>

\* Lines 31-39: an exception leaves the handler.
RecordRaises ==
  /\ pc = "record"
  /\ current.kind = "raise"
  /\ pc' = "raised"
  /\ result' = Raise(current.exc)
  /\ UNCHANGED << config, index, current, message_ids, calls >>

\* Lines 41-43: no topic, the record is skipped.
SkipNoTopic ==
  /\ pc = "record"
  /\ current.kind = "ready"
  /\ TopicUnset(FORMATTED_TOPIC_ARN)
  /\ index' = index + 1
  /\ pc' = "loop"
  /\ UNCHANGED << config, current, message_ids, calls, result >>

\* Lines 45-53: publish returns a response.
PublishReturns ==
  /\ pc = "record"
  /\ current.kind = "ready"
  /\ ~TopicUnset(FORMATTED_TOPIC_ARN)
  /\ \E response \in PublishResponses :
       /\ calls' = Append(calls, Call(index, SubjectArg(current.subject),
                                      current.body, FALSE, response))
       /\ message_ids' = Collect(message_ids, response)
  /\ index' = index + 1
  /\ pc' = "loop"
  /\ UNCHANGED << config, current, result >>

\* Line 45: publish raises; nothing catches it.
PublishRaises ==
  /\ pc = "record"
  /\ current.kind = "ready"
  /\ ~TopicUnset(FORMATTED_TOPIC_ARN)
  /\ calls' = Append(calls, Call(index, SubjectArg(current.subject),
                                 current.body, TRUE, EmptyDict))
  /\ pc' = "raised"
  /\ result' = Raise("ClientError")
  /\ UNCHANGED << config, index, current, message_ids >>

\* Line 55: the loop is over.
Return200 ==
  /\ pc = "loop"
  /\ index > Len(Items(records))
  /\ pc' = "done"
  /\ result' = Ret(Success(message_ids))
  /\ UNCHANGED << config, index, current, message_ids, calls >>

Next ==
  \/ NoRecords
  \/ RecordsNotIterable
  \/ BeginLoop
  \/ TakeRecord
  \/ SkipRecord
  \/ RecordRaises
  \/ SkipNoTopic
  \/ PublishReturns
  \/ PublishRaises
  \/ Return200

Spec == Init /\ [][Next]_vars

(***************************************************************************)
(* Properties of lambda_handler, checked under Spec                        *)
(***************************************************************************)
items == Items(records)

Returned == pc = "done"
Finished == pc \in {"done", "raised"}
StatusCode == Get(result.val, "statusCode").v

\* The event carries a non-empty list of records.
Batch == IsList(records) /\ Len(records.v) > 0

SnsOf(record) == GetOr(record, "Sns", EmptyDict)

\* A delivery record as the subscription sends it: a mapping whose Sns
\* entry, if any, is a mapping whose Message, if any, is text.
SnsShaped(record) ==
  /\ IsDict(record)
  /\ IsDict(SnsOf(record))
  /\ Get(SnsOf(record), "Message").t \in {"null", "str"}

\* The record has a message body.
HasMessage(record) ==
  /\ SnsShaped(record)
  /\ IsStr(Get(SnsOf(record), "Message"))
  /\ Get(SnsOf(record), "Message").v # ""

\* What lines 31-39 make of record i of the batch
Outcome(i) == Prepare(items[i], INCLUDE_RAW_PAYLOAD).kind

\* publish returned for record i.
Published(i) == \E k \in 1..Len(calls) : calls[k].index = i /\ ~calls[k].failed

\* C1: per-record isolation.  In a batch whose records either lack a message
\* or are well-formed (a subject and a body can be rendered from them), the
\* invocation ends by returning statusCode 200 and, when a topic is
\* configured, every well-formed record has been published, whatever
\* happened to the records before it (a failed publish call included).
C1_PerRecordIsolation ==
  (/\ Finished
   /\ Batch
   /\ \A i \in 1..Len(items) : SnsShaped(items[i]) /\ Outcome(i) \in {"skip", "ready"})
  => /\ Returned
     /\ StatusCode = 200
     /\ ~TopicUnset(FORMATTED_TOPIC_ARN)
          => \A i \in 1..Len(items) : Outcome(i) = "ready" => Published(i)

\* C2: lambda_handler never raises for malformed input.  For an event whose
\* records are delivery records (with or without a message, JSON or not,
\* with whatever fields and field types), the invocation ends by returning
\* statusCode 400 or 200; it raises only what a publish call raised.
C2_NeverRaisesOnMalformedInput ==
  (Batch /\ \A i \in 1..Len(items) : SnsShaped(items[i]))
  => /\ pc = "raised" => result.exc = "ClientError"
     /\ Returned => StatusCode \in {200, 400}

\* C3: with Records absent or an empty list the handler returns
\* {statusCode: 400, body: "No SNS records provided"} straight away: the
\* loop is never entered and no publish call is made.
C3_NoRecordsIs400 ==
  (~HasKey(event, "Records") \/ (IsList(records) /\ Len(records.v) = 0))
  => /\ pc \in {"start", "done"}
     /\ calls = <<>>
     /\ Returned =>
          /\ ~result.raised
          /\ Keys(result.val) = {"statusCode", "body"}
          /\ StatusCode = 400
          /\ Get(result.val, "body").v = "No SNS records provided"

C3_Witness ==
  /\ Returned
  /\ HasKey(event, "Records") /\ IsList(records) /\ Len(records.v) = 0
  /\ StatusCode = 400

\* The MessageId of a response, None if it has none
MessageIdOf(response) == Get(response, "MessageId")

\* The non-empty identifiers the publish calls returned, in call order
RECURSIVE IdsReturned(_, _)
IdsReturned(cs, k) ==
  IF k > Len(cs) THEN <<>>
  ELSE (IF ~cs[k].failed /\ Truthy(MessageIdOf(cs[k].response))
          THEN << MessageIdOf(cs[k].response) >>
          ELSE <<>>)
       \o IdsReturned(cs, k + 1)

\* C4 (amended): messageIds holds the non-empty delivery identifiers this
\* invocation's publish calls returned, in input-record order: at most one
\* per published record (none for a response without a MessageId), none for
\* a skipped record; its length never exceeds the number of publish calls
\* made so far, and a 200 response carries exactly that list.
C4_MessageIdsAreReturnedIds ==
  /\ message_ids = IdsReturned(calls, 1)
  /\ Len(message_ids) <= Len(calls)
  /\ \A k \in 1..Len(calls) : \A l \in 1..Len(calls) :
       k < l => calls[k].index < calls[l].index
  /\ (Returned /\ StatusCode = 200) =>
       /\ Get(result.val, "messageIds").t = "list"
       /\ Get(result.val, "messageIds").v = message_ids

C4_Witness ==
  /\ Returned
  /\ StatusCode = 200
  /\ Len(calls) = 2
  /\ Len(message_ids) = 1
  /\ Truthy(MessageIdOf(calls[2].response))

\* C4 as stated: a 200 response carries one identifier per published record.
C4_OneIdPerPublishedRecord ==
  (Returned /\ StatusCode = 200) =>
    Len(Get(result.val, "messageIds").v) = Cardinality({i \in 1..Len(items) : Published(i)})

\* C5: with no topic configured, a non-empty batch of delivery records makes
\* no publish call, does not raise, and returns statusCode 200 with an empty
\* messageIds list.
C5_NoTopicSkipsEveryRecord ==
  (/\ TopicUnset(FORMATTED_TOPIC_ARN)
   /\ Batch
   /\ \A i \in 1..Len(items) : SnsShaped(items[i]))
  => /\ calls = <<>>
     /\ pc # "raised"
     /\ Returned => StatusCode = 200 /\ Get(result.val, "messageIds").v = <<>>

\* The payload normalize_message makes of record i's message
PayloadOf(i) == normalize_message(Get(SnsOf(items[i]), "Message")).val

\* The first of AlarmName and Alarm that is present with a non-empty value
NamedBy(payload) ==
  IF HasKey(payload, "AlarmName") /\ Truthy(Lookup(payload, "AlarmName"))
    THEN Lookup(payload, "AlarmName")
  ELSE IF HasKey(payload, "Alarm") /\ Truthy(Lookup(payload, "Alarm"))
    THEN Lookup(payload, "Alarm")
  ELSE Str("CloudWatch Alarm")

\* `subject` is the first 100 characters of `whole`, the subject
\* "{severity} - {alarmName}" of payload.
CutFrom(subject, whole, payload) ==
  /\ Len(subject) <= 100
  /\ subject = SubSeq(whole, 1, IF Len(whole) < 100 THEN Len(whole) ELSE 100)
  /\ whole = severity_text(ResolveState(payload)).val.v \o " - "
               \o PyStr(NamedBy(payload))

SubjectOf(subject, payload) == CutFrom(subject, format_subject(payload).val.v, payload)

\* C6: the subject of every publish call is at most 100 characters long and
\* is the first 100 characters of format_subject's result, which reads
\* "{severity} - {alarmName}" with alarmName the first of AlarmName and
\* Alarm that is present (with a non-empty value), "CloudWatch Alarm" if
\* neither is.
C6_SubjectAtMost100 ==
  \A k \in 1..Len(calls) : SubjectOf(calls[k].Subject, PayloadOf(calls[k].index))

\* A subject was cut: the rendered subject is longer than 100 characters.
C6_Witness ==
  /\ Len(calls) = 1
  /\ Len(calls[1].Subject) = 100
  /\ Len(format_subject(PayloadOf(1)).val.v) > 100

\* C10: publish is called at most once per record and never retried: the
\* calls follow the input order of the records they are for, a call that
\* failed is the last one, a record with a missing or empty message is never
\* published, and there are never more calls than records.
C10_PublishOncePerRecordInOrder ==
  /\ Len(calls) <= Len(items)
  /\ \A k \in 1..Len(calls) :
       /\ calls[k].index \in 1..Len(items)
       /\ HasMessage(items[calls[k].index]) \/ ~SnsShaped(items[calls[k].index])
       /\ calls[k].failed => k = Len(calls)
       /\ \A l \in 1..Len(calls) : k < l => calls[k].index < calls[l].index

C10_Witness ==
  /\ Returned
  /\ Len(items) = 2
  /\ ~HasMessage(items[1])
  /\ Len(calls) = 1
  /\ calls[1].index = 2

(***************************************************************************)
(* The pure functions applied on their own: arg is drawn from a bounded    *)
(* set of arguments, one step applies the function and leaves what it      *)
(* returned or raised in result.                                           *)
(***************************************************************************)
Idle ==
  /\ FORMATTED_TOPIC_ARN = ""
  /\ INCLUDE_RAW_PAYLOAD = FALSE
  /\ event = EmptyDict
  /\ pc = "start"
  /\ index = 0
  /\ current = Skip
  /\ message_ids = <<>>
  /\ calls = <<>>
  /\ result = Ret(None)

Apply(outcome) ==
  /\ pc = "start"
  /\ result' = outcome
  /\ pc' = "done"
  /\ UNCHANGED << config, index, current, message_ids, calls >>

MaxRawLen == 5

\* Pieces of JSON text; the empty piece makes the shorter texts
RawPieces == {"", "{", "}", "[", "]", "\"k\"", ":", ",", "1"}

RECURSIVE Concat(_, _)
Concat(pieces, n) == IF n = 0 THEN "" ELSE Concat(pieces, n - 1) \o pieces[n]

\* The texts made of at most MaxRawLen pieces
RawTexts == {Concat(pieces, MaxRawLen) : pieces \in [1..MaxRawLen -> RawPieces]}

\* Texts with whitespace, literals, repeated keys and plain words
RawSamples ==
  {AlarmText, GenericText, NumericStateText, "disk is full", "[1, \"x\"]",
   " { \"k\" : [ 1 , null ] , \"j\" : true }\n", "{\"k\":1,\"k\":2}", "{\"k\":1,}",
   "{\"k\":1}x", "null", "false", "-12", "01", "\"k", "{'k':1}", " "}

RawMessages == RawTexts \cup RawSamples

InitNorm == Idle /\ arg \in {Str(raw) : raw \in RawMessages}

NormalizeMessage == Apply(normalize_message(arg))

SpecNorm == InitNorm /\ [][NormalizeMessage]_vars

LowerChar(c) ==
  IF \E k \in 1..26 : Uppers[k] = c
    THEN Lowers[CHOOSE k \in 1..26 : Uppers[k] = c]
    ELSE c

RECURSIVE LowerPrefix(_, _)
LowerPrefix(word, n) ==
  IF n = 0 THEN word
  ELSE LowerPrefix(SubSeq(word, 1, n - 1) \o LowerChar(Ch(word, n))
                     \o SubSeq(word, n + 1, Len(word)), n - 1)

\* with the letters from n on in lower case
LowerSuffix(word, n) == SubSeq(word, 1, n - 1) \o SubSeq(LowerPrefix(word, Len(word)), n, Len(word))

Spellings(word) ==
  {LowerPrefix(word, n) : n \in 0..Len(word)} \cup {LowerSuffix(word, n) : n \in 1..Len(word)}

OtherStates == {"UNKNOWN", "unknown", "ALARMS", "ALARM ", " OK", "O K", "INSUFFICIENT", "x"}

\* State values a payload may hold: text, or any other JSON value
StateValues ==
  {Str(w) : w \in Spellings("ALARM") \cup Spellings("INSUFFICIENT_DATA")
                    \cup Spellings("OK") \cup OtherStates \cup {""}}
    \cup {None, Num(0), Num(1), Bool(TRUE), Bool(FALSE), List(<<>>),
          List(<< Str("ALARM") >>), Dict(<< <<"value", Str("ALARM")>> >>)}

StatePayloads ==
  {EmptyDict}
    \cup {Dict(<< <<"NewStateValue", x>> >>) : x \in StateValues}
    \cup {Dict(<< <<"StateValue", x>> >>) : x \in StateValues}
    \cup {Dict(<< <<"NewStateValue", Str("")>>, <<"StateValue", x>> >>) : x \in StateValues}

InitSeverity == Idle /\ arg \in StatePayloads

\* format_subject line 71-73, format_body line 78
ResolveSeverity == Apply(severity_text(ResolveState(arg)))

SpecSeverity == InitSeverity /\ [][ResolveSeverity]_vars

Severities == {"CRITICAL", "WARNING", "RESOLVED", "INFO"}

\* C8: severity_text is total: for every state value resolved from a
\* payload it returns one of CRITICAL, WARNING, RESOLVED, INFO: CRITICAL,
\* WARNING and RESOLVED for ALARM, INSUFFICIENT_DATA and OK in any letter
\* case, INFO for every other value.
C8_SeverityIsTotal ==
  Returned =>
    /\ ~result.raised
    /\ result.val.v \in Severities
    /\ IsStr(ResolveState(arg)) =>
         /\ ResolveState(arg).v \in Spellings("ALARM") <=> result.val.v = "CRITICAL"
         /\ ResolveState(arg).v \in Spellings("INSUFFICIENT_DATA")
              <=> result.val.v = "WARNING"
         /\ ResolveState(arg).v \in Spellings("OK") <=> result.val.v = "RESOLVED"
    /\ ~IsStr(ResolveState(arg)) => result.val.v = "INFO"

\* Members a trigger may hold for each of its fields: none, a value, null
MetricMembers ==
  {<<>>, << <<"MetricName", Str("CPU")>> >>, << <<"Metric", Str("CPU")>> >>,
   << <<"MetricName", None>> >>}
NamespaceMembers ==
  {<<>>, << <<"Namespace", Str("AWS/EC2")>> >>, << <<"Namespace", None>> >>}
StatisticMembers ==
  {<<>>, << <<"Statistic", Str("Sum")>> >>, << <<"Stat", Str("Sum")>> >>,
   << <<"Stat", None>> >>}
PeriodMembers ==
  {<<>>, << <<"Period", Num(60)>> >>, << <<"PeriodInSeconds", Num(300)>> >>}
EvaluationMembers ==
  {<<>>, << <<"EvaluationPeriods", Num(1)>> >>, << <<"EvaluationPeriods", None>> >>}
ThresholdMembers ==
  {<<>>, << <<"Threshold", Num(80)>> >>, << <<"Threshold", None>> >>}

Pair(name, value) == Dict(<< <<"name", Str(name)>>, <<"value", Str(value)>> >>)

DimensionMembers ==
  {<<>>,
   << <<"Dimensions", List(<<>>)>> >>,
   << <<"Dimensions", List(<< Pair("InstanceId", "i-1") >>)>> >>,
   << <<"Dimensions", List(<< Pair("InstanceId", "i-1"), Pair("Zone", "a") >>)>> >>,
   << <<"dimension", Dict(<< <<"InstanceId", Str("i-1")>> >>)>> >>,
   << <<"Dimensions", Str("InstanceId")>> >>}

Triggers ==
  {Dict(m \o n \o s \o p \o e \o t \o d) :
     m \in MetricMembers, n \in NamespaceMembers, s \in StatisticMembers,
     p \in PeriodMembers, e \in EvaluationMembers, t \in ThresholdMembers,
     d \in DimensionMembers}

\* What `payload.get("Trigger") or {}` may come to
TriggerValues == Triggers \cup {Str("cpu"), Num(5), List(<< Str("cpu") >>)}

InitTrigger == Idle /\ arg \in TriggerValues

ExtractTriggerInfo == Apply(extract_trigger_info(arg))

SpecTrigger == InitTrigger /\ [][ExtractTriggerInfo]_vars

TriggerFields ==
  {"metric_name", "namespace", "statistic", "period", "evaluation_periods",
   "threshold", "dimensions"}

\* C9: extract_trigger_info returns all seven fields and none is null: for
\* an empty trigger every field is "Unknown" and dimensions is "None"; for
\* a non-empty one dimensions is text and no field is null.
C9_TriggerFieldsNeverNull ==
  (Returned /\ IsDict(arg)) =>
    /\ ~result.raised
    /\ DOMAIN result.val = TriggerFields
    /\ \A f \in TriggerFields : ~IsNone(result.val[f])
    /\ IsStr(result.val.dimensions)
    /\ Len(arg.v) = 0 => result.val = TriggerDefaults

====
